---- MODULE Spec2Model ----
(***************************************************************************)
(* Model of the Dynamixel Protocol 2 bus of src/src/bus.rs: the read       *)
(* buffer with its valid length, the write buffer, the polling loop of     *)
(* read_status_response, write_instruction, transfer_single and the        *)
(* release of a Response.  Buffers are sequences of fixed length; the      *)
(* byte at Rust index i is element i + 1.                                  *)
(***************************************************************************)
EXTENDS Integers, Sequences, FiniteSets, TLC

\* ------------------------------------------------------------------ bounds
\* Capacity of the read buffer (Bus::with_buffer_sizes takes any size).
ReadCap == 24
\* Capacity of the write buffer.
WriteCap == 15
\* read_timeout, in clock ticks.
ReadTimeout == 1
\* Number of calls of the bus's public methods in one behaviour.
MaxCalls == 2
\* Longest enumerated garbage prefix.
MaxGarbage == 2

\* --------------------------------------------------------------- constants
HEADER_PREFIX == <<255, 255, 253, 0>>
HEADER_SIZE == 8
STATUS_HEADER_SIZE == 9
\* crate::instructions::instruction_id::STATUS
STATUS == 85
\* crate::instructions::instruction_id::PING
PING == 1

Min(a, b) == IF a < b THEN a ELSE b

\* Rust's buffer[a..b] of a sequence indexed from 0.
Slice(buffer, a, b) == SubSeq(buffer, a + 1, b)

\* slice::starts_with
starts_with(buffer, needle) ==
    /\ Len(buffer) >= Len(needle)
    /\ SubSeq(buffer, 1, Len(needle)) = needle

\* ---------------------------------------------------------------- checksum
RECURSIVE Xor(_, _)
Xor(a, b) ==
    IF a = 0 THEN b
    ELSE IF b = 0 THEN a
    ELSE (((a % 2) + (b % 2)) % 2) + 2 * Xor(a \div 2, b \div 2)

RECURSIVE CrcShift(_, _)
CrcShift(c, n) ==
    IF n = 0 THEN c
    ELSE CrcShift(IF c >= 32768 THEN Xor((c * 2) % 65536, 32773) ELSE c * 2, n - 1)

\* The table of the 16 bit checksum of the protocol (polynomial 0x8005).
CrcTable == [i \in 0..255 |-> CrcShift(i * 256, 8)]

\* crate::checksum::calculate_checksum: a seeded rolling 16 bit checksum.
RECURSIVE calculate_checksum(_, _)
calculate_checksum(seed, bytes) ==
    IF bytes = <<>> THEN seed
    ELSE calculate_checksum(
             Xor((seed % 256) * 256, CrcTable[Xor(seed \div 256, Head(bytes))]),
             Tail(bytes))

\* crate::endian
read_u16_le(buffer) == buffer[1] + 256 * buffer[2]
write_u16_le(value) == <<(value % 256), (value \div 256)>>

\* --------------------------------------------------------------- bytestuff
\* stuff: a marker byte 0xFD follows every FF FF FD of the body.
RECURSIVE StuffFrom(_, _, _)
StuffFrom(body, i, out) ==
    IF i > Len(body) THEN out
    ELSE LET o == Append(out, body[i])
             n == Len(o)
         IN  StuffFrom(body, i + 1,
                 IF n >= 3 /\ SubSeq(o, n - 2, n) = <<255, 255, 253>>
                     THEN Append(o, 253) ELSE o)

stuff(body) == StuffFrom(body, 1, <<>>)

\* unstuff: the byte 0xFD that follows FF FF FD is removed.
RECURSIVE UnstuffFrom(_, _, _)
UnstuffFrom(body, i, out) ==
    IF i > Len(body) THEN out
    ELSE LET o == Append(out, body[i])
             n == Len(o)
             skip == /\ n >= 3
                     /\ SubSeq(o, n - 2, n) = <<255, 255, 253>>
                     /\ i + 1 <= Len(body)
                     /\ body[i + 1] = 253
         IN  UnstuffFrom(body, IF skip THEN i + 2 ELSE i + 1, o)

unstuff(body) == UnstuffFrom(body, 1, <<>>)

\* ------------------------------------------------------------- find_header
RECURSIVE find_header_from(_, _)
find_header_from(buffer, i) ==
    IF i >= Len(buffer) THEN Len(buffer)
    ELSE LET possible_prefix == Min(Len(HEADER_PREFIX), Len(buffer) - i)
         IN  IF starts_with(Slice(buffer, i, Len(buffer)),
                            SubSeq(HEADER_PREFIX, 1, possible_prefix))
                 THEN i
                 ELSE find_header_from(buffer, i + 1)

\* Mutant: only a whole header prefix is looked for, a trailing part of one is garbage.
RECURSIVE find_whole_header_from(_, _)
find_whole_header_from(buffer, i) ==
    IF i >= Len(buffer) THEN Len(buffer)
    ELSE IF starts_with(Slice(buffer, i, Len(buffer)), HEADER_PREFIX)
        THEN i
        ELSE find_whole_header_from(buffer, i + 1)

find_header_whole_only(buffer) == find_whole_header_from(buffer, 0)

find_header(buffer) == find_header_from(buffer, 0)

\* ------------------------------------------------------------ the transport
\* A status frame as a device puts it on the wire.
StatusFrame(packet_id, instruction_id, error, parameters) ==
    LET body == stuff(parameters)
        head == HEADER_PREFIX \o <<packet_id>> \o write_u16_le(Len(body) + 4)
                    \o <<instruction_id, error>> \o body
    IN  head \o write_u16_le(calculate_checksum(0, head))

\* The same frame with its two checksum bytes inverted.
FlipChecksum(frame) ==
    LET n == Len(frame)
    IN  SubSeq(frame, 1, n - 2) \o <<255 - frame[n - 1], 255 - frame[n]>>

\* A header that declares `length` in its length field, followed by `fill`.
RawFrame(packet_id, length, fill) ==
    HEADER_PREFIX \o <<packet_id>> \o write_u16_le(length) \o fill

Fill(n) == [i \in 1..n |-> 7]

Desc(kind, packet_id, error, parameters, bytes) ==
    [kind |-> kind, packet_id |-> packet_id, error |-> error,
     parameters |-> parameters, bytes |-> bytes]

NoFrame == Desc("none", 0, 0, <<>>, <<>>)

Valid(packet_id, parameters) ==
    Desc("valid", packet_id, 0, parameters, StatusFrame(packet_id, STATUS, 0, parameters))

ValidFrames ==
    {Valid(1, <<>>), Valid(1, <<7>>), Valid(1, <<255, 255, 253>>), Valid(2, <<>>)}

BadFrames ==
    { Desc("badcrc", 1, 0, <<>>, FlipChecksum(StatusFrame(1, STATUS, 0, <<>>))),
      Desc("badcrc", 1, 0, <<7>>, FlipChecksum(StatusFrame(1, STATUS, 0, <<7>>))),
      Desc("marker", 1, 0, <<>>, StatusFrame(1, 3, 0, <<>>)),
      Desc("marker", 1, 2, <<>>, StatusFrame(1, 3, 2, <<>>)),
      Desc("motor", 1, 2, <<>>, StatusFrame(1, STATUS, 2, <<>>)),
      Desc("oversize", 1, 0, <<>>,
           RawFrame(1, ReadCap - 6, <<STATUS, 0>> \o Fill(ReadCap - 8))) }

\* A header that declares `length`, the bytes `fill` and their checksum.
Checksummed(packet_id, length, fill) ==
    LET head == RawFrame(packet_id, length, fill)
    IN  head \o write_u16_le(calculate_checksum(0, head))

\* Headers whose length field is too small to hold a status frame: with a wrong
\* checksum, and with the right one, as in the instruction frame of a ping
\* (length 3) that another device, or the echo of the line, puts on the bus.
ShortFrames ==
    { Desc("short", 1, 0, <<>>, RawFrame(1, l, <<STATUS, 0, 0, 0>>)) : l \in 0..3 }
        \cup { Desc("short", 1, 0, <<>>, Checksummed(1, 2, <<>>)),
               Desc("short", 1, 0, <<>>, Checksummed(1, 3, <<PING>>)) }

RECURSIVE SeqsUpTo(_, _)
SeqsUpTo(S, n) ==
    IF n = 0 THEN {<<>>}
    ELSE LET shorter == SeqsUpTo(S, n - 1)
         IN  shorter \cup {Append(q, b) : q \in shorter, b \in S}

\* Garbage: every short sequence of the bytes a header is made of, and longer
\* ones that hold a partial or a whole header prefix.
Garbage ==
    SeqsUpTo({0, 255}, MaxGarbage)
        \cup {<<253>>, <<255, 255, 253>>, <<1, 255, 255, 253, 0>>}

\* What the transport delivers in one behaviour: garbage G, then the frames F1
\* and F2, in bursts that end at the offsets `cuts` of the stream; one
\* stream.read returns the rest of the current burst, or what of it fits.  And
\* the parameters the caller passes to write_instruction and transfer_single.
Scenario(G, F1, F2, cuts, writes) ==
    LET n == Len(G) + Len(F1.bytes) + Len(F2.bytes)
    IN  [G |-> G, F1 |-> F1, F2 |-> F2, writes |-> writes,
         cuts |-> (cuts \cap 1..n) \cup {n}]

\* Garbage and a valid frame, in one burst or split in two at any offset.
SplitScenarios ==
    {Scenario(G, F1, NoFrame, {k}, {<<>>}) :
         G \in Garbage, F1 \in {Valid(1, <<>>)}, k \in 1..(MaxGarbage + 11)}
        \cup {Scenario(<<>>, Valid(2, <<255, 255, 253>>), NoFrame, {k}, {<<>>}) : k \in 1..15}

\* One or two frames back to back, in one burst or one burst each.
PairScenarios ==
    UNION {{Scenario(<<>>, F1, F2, {}, {<<>>}), Scenario(<<>>, F1, F2, {Len(F1.bytes)}, {<<>>})} :
               F1 \in ValidFrames \cup BadFrames \cup ShortFrames,
               F2 \in {NoFrame, Valid(2, <<>>)}}

\* A frame that arrives one byte at a time.
TrickleScenarios == {Scenario(<<0>>, Valid(1, <<7>>), NoFrame, 1..13, {<<>>})}

\* A caller whose parameters fit the write buffer, some of them after stuffing;
\* and one whose parameters do not: a body that fits until it is stuffed, and
\* one that is too long as it is.
WriteScenarios ==
    {Scenario(<<>>, Valid(1, <<>>), NoFrame, {}, writes) :
         writes \in { {<<7>>, <<255, 255, 253>>, <<255, 255, 253, 253>>},
                      {<<255, 255, 255, 253>>,
                       Fill(WriteCap - 13) \o <<255, 255, 253>>,
                       Fill(WriteCap - 9)} }}

Scenarios == SplitScenarios \cup PairScenarios \cup TrickleScenarios \cup WriteScenarios

PacketIds == {1, 2}

\* ------------------------------------------------------------------- state
VARIABLES
    read_buffer,    \* Bus::read_buffer
    read_len,       \* Bus::read_len
    write_buffer,   \* Bus::write_buffer
    pc,             \* where the caller is: idle, sending, reading, response, panicked
    op,             \* the call in progress: its kind, the packet ID and the frame it sends
    now,            \* Instant::now(), counted from the entry of the read in progress
    deadline,       \* read_status_response's deadline
    response,       \* the live Response: stuffed_message_len, parameter_count
    result,         \* how the last call ended
    kept,           \* read_len when a read last timed out, 0 once a call has emptied or used the buffer
    thrown,         \* the number of buffered bytes the last write_instruction threw away
    scen,           \* what the transport delivers in this behaviour
    delivered,      \* the number of bytes of it the transport has delivered
    sent,           \* the frame the transport took in the last successful write_all
    calls,          \* calls made so far
    mark,           \* `delivered` at the last write_instruction
    live,           \* Responses constructed and not yet dropped
    rel             \* the last release: the buffer before it and what it removed

vars == <<read_buffer, read_len, write_buffer, pc, op, now, deadline, response,
          result, kept, thrown, scen, delivered, sent, calls, mark, live, rel>>

Stream == scen.G \o scen.F1.bytes \o scen.F2.bytes
Wire == SubSeq(Stream, delivered + 1, Len(Stream))
\* The bytes left of the burst that is arriving.
Burst ==
    LET ends == {c \in scen.cuts : c > delivered}
    IN  IF ends = {} THEN 0
        ELSE (CHOOSE c \in ends : \A d \in ends : c <= d) - delivered

NoOp == [kind |-> "none", packet_id |-> 0, message |-> <<>>]
NoResponse == [stuffed_message_len |-> 0, parameter_count |-> 0]
NoRelease == [read_len |-> 0, stuffed_message_len |-> 0, tail |-> <<>>]
Ended(kind, call) == [kind |-> kind, call |-> call]

\* Bus::with_buffers
Init ==
    /\ scen \in Scenarios
    /\ read_buffer = [i \in 1..ReadCap |-> 0]
    /\ read_len = 0
    /\ write_buffer = HEADER_PREFIX \o [i \in 1..(WriteCap - 4) |-> 0]
    /\ pc = "idle"
    /\ op = NoOp
    /\ now = 0
    /\ deadline = 0
    /\ response = NoResponse
    /\ result = Ended("none", "none")
    /\ kept = 0
    /\ thrown = 0
    /\ delivered = 0
    /\ sent = <<>>
    /\ calls = 0
    /\ mark = 0
    /\ live = 0
    /\ rel = NoRelease

\* ---------------------------------------------------------- the read buffer
BusOf(buffer, len) == [read_buffer |-> buffer, read_len |-> len]

\* Mutant: nothing is moved.
copy_within_nothing(buffer, src_start, src_end, dest) == buffer

\* slice::copy_within(src_start..src_end, dest)
copy_within(buffer, src_start, src_end, dest) ==
    [i \in 1..Len(buffer) |->
        IF i - 1 >= dest /\ i - 1 < dest + (src_end - src_start)
            THEN buffer[(i - 1 - dest) + src_start + 1]
            ELSE buffer[i]]

\* The debug_assert of consume_read_bytes.
consume_assert(bus, len) == len <= bus.read_len

\* Mutant: the length is lowered and the bytes behind the consumed ones stay put.
consume_read_bytes_no_shift(bus, len) == BusOf(bus.read_buffer, bus.read_len - len)

\* Bus::consume_read_bytes
consume_read_bytes(bus, len) ==
    BusOf(copy_within(bus.read_buffer, len, bus.read_len, 0), bus.read_len - len)

\* Mutant: everything in front of a whole header prefix is garbage.
remove_garbage_to_whole_header(bus) ==
    consume_read_bytes(bus, find_header_whole_only(Slice(bus.read_buffer, 0, bus.read_len)))

\* Bus::remove_garbage
remove_garbage(bus) ==
    LET garbage_len == find_header(Slice(bus.read_buffer, 0, bus.read_len))
    IN  consume_read_bytes(bus, garbage_len)

\* Mutant: the transport reads into the start of the buffer, not behind read_len.
receive_at_start(bus, chunk) ==
    BusOf([i \in 1..Len(bus.read_buffer) |->
              IF i <= Len(chunk) THEN chunk[i] ELSE bus.read_buffer[i]],
          bus.read_len + Len(chunk))

\* stream.read(&mut read_buffer[read_len..]) followed by read_len += new_data
receive(bus, chunk) ==
    BusOf([i \in 1..Len(bus.read_buffer) |->
              IF i > bus.read_len /\ i <= bus.read_len + Len(chunk)
                  THEN chunk[i - bus.read_len]
                  ELSE bus.read_buffer[i]],
          bus.read_len + Len(chunk))

\* crate::bytestuff::unstuff_inplace on buffer[from..to]: the unstuffed bytes are
\* packed at `from`, the bytes behind them stay as they were.
unstuff_inplace(buffer, from, to) ==
    LET data == unstuff(Slice(buffer, from, to))
    IN  [buffer |-> [i \in 1..Len(buffer) |->
                        IF i > from /\ i <= from + Len(data)
                            THEN data[i - from] ELSE buffer[i]],
         parameter_count |-> Len(data)]

\* ------------------------------------------------------------- the Response
\* Response::as_bytes
as_bytes(bus, resp) == Slice(bus.read_buffer, 0, STATUS_HEADER_SIZE + resp.parameter_count)
\* Response::packet_id
packet_id(bus, resp) == as_bytes(bus, resp)[4 + 1]
\* Response::instruction_id
instruction_id(bus, resp) == as_bytes(bus, resp)[7 + 1]
\* Response::error
error(bus, resp) == as_bytes(bus, resp)[8 + 1]
\* Response::parameters
parameters(bus, resp) ==
    Slice(as_bytes(bus, resp), STATUS_HEADER_SIZE, STATUS_HEADER_SIZE + resp.parameter_count)

\* Mutant: the release counts two bytes more than the frame has.
drop_two_more(bus, resp) == consume_read_bytes(bus, resp.stuffed_message_len + 2)

\* Mutant: the release empties the read buffer.
drop_everything(bus, resp) == consume_read_bytes(bus, bus.read_len)

\* Drop for Response
drop(bus, resp) == consume_read_bytes(bus, resp.stuffed_message_len)

\* crate::InvalidInstruction::check
InvalidInstruction_check(actual, expected) == actual = expected
\* crate::MotorError::check
MotorError_check(raw) == raw = 0
\* crate::error::InvalidPacketId::check
InvalidPacketId_check(actual, expected) == actual = expected

\* -------------------------------------------------- read_status_response
\* What one pass of the loop, or the code after it, comes to.  `before` is the
\* bus as it was when the Response was dropped inside the call.
Outcome(kind, bus, resp, made, dropped, before) ==
    [kind |-> kind, bus |-> bus, response |-> resp,
     created |-> made, released |-> dropped, before |-> before]

\* Mutant: the rejected frame stays in the buffer.
checksum_mismatch_keeps_frame(bus, stuffed_message_len) ==
    [kind |-> "InvalidChecksum", bus |-> bus, response |-> NoResponse,
     created |-> FALSE, released |-> FALSE, before |-> bus]

\* Lines 177-183: the frame is taken out of the buffer and the call fails.
checksum_mismatch(bus, stuffed_message_len) ==
    Outcome("InvalidChecksum", consume_read_bytes(bus, stuffed_message_len),
            NoResponse, FALSE, FALSE, bus)

\* Mutant: the error field is looked at before the marker byte.
validate_error_first(bus, resp) ==
    IF ~MotorError_check(error(bus, resp)) THEN "MotorError"
    ELSE IF ~InvalidInstruction_check(instruction_id(bus, resp), STATUS) THEN "InvalidInstruction"
    ELSE "Ok"

\* Lines 196-198: the two checks of the Response, in the order of the code.
validate(bus, resp) ==
    IF ~InvalidInstruction_check(instruction_id(bus, resp), STATUS) THEN "InvalidInstruction"
    ELSE IF ~MotorError_check(error(bus, resp)) THEN "MotorError"
    ELSE "Ok"

\* Lines 171-198: the frame of stuffed_message_len bytes at the head of the buffer.
decode(bus, stuffed_message_len) ==
    LET buffer == bus.read_buffer
        parameters_end == stuffed_message_len - 2
        checksum_message == read_u16_le(Slice(buffer, parameters_end, parameters_end + 2))
        checksum_computed == calculate_checksum(0, Slice(buffer, 0, parameters_end))
    IN  IF checksum_message # checksum_computed
            THEN checksum_mismatch(bus, stuffed_message_len)
        ELSE IF parameters_end < STATUS_HEADER_SIZE
            \* buffer[STATUS_HEADER_SIZE..parameters_end]: the slice's start is past its end
            THEN Outcome("Panic", bus, NoResponse, FALSE, FALSE, bus)
        ELSE LET un == unstuff_inplace(buffer, STATUS_HEADER_SIZE, parameters_end)
                 held == BusOf(un.buffer, bus.read_len)
                 resp == [stuffed_message_len |-> stuffed_message_len,
                          parameter_count |-> un.parameter_count]
                 checked == validate(held, resp)
             IN  IF checked # "Ok"
                     \* the try operator returns and the Response is dropped
                     THEN Outcome(checked, drop(held, resp), resp, TRUE, TRUE, held)
                     ELSE Outcome("Ok", held, resp, TRUE, FALSE, held)

\* Lines 151-169: new_data bytes have arrived.  The subtraction of line 164
\* overflows for a length field below 2: a build with overflow checks panics, a
\* build without them wraps, and STATUS_HEADER_SIZE + body_len wraps back to
\* 7 + length; body_len is kept as the representative length - 2 of its class
\* modulo 2^64, for which both sums are exact.
poll(bus, chunk) ==
    LET got == remove_garbage(receive(bus, chunk))
        read_buffer_ == Slice(got.read_buffer, 0, got.read_len)
        again == Outcome("continue", got, NoResponse, FALSE, FALSE, got)
    IN  IF ~starts_with(read_buffer_, HEADER_PREFIX) THEN {again}
        ELSE IF got.read_len < STATUS_HEADER_SIZE THEN {again}
        ELSE LET length == read_buffer_[5 + 1] + read_buffer_[6 + 1] * 256
                 body_len == length - 2
                 step == IF got.read_len >= STATUS_HEADER_SIZE + body_len
                             THEN decode(got, STATUS_HEADER_SIZE + body_len)
                             ELSE again
             IN  IF length < 2
                     THEN {Outcome("Panic", got, NoResponse, FALSE, FALSE, got), step}
                     ELSE {step}

\* ------------------------------------------------------- write_instruction
\* Mutant: the body is sent as the caller wrote it.
stuff_inplace_skipped(buffer, from, parameter_count) ==
    [ok |-> TRUE, buffer |-> buffer, stuffed_body_len |-> parameter_count]

\* crate::bytestuff::stuff_inplace on buffer[from..]: Err when the stuffed body
\* does not fit.
stuff_inplace(buffer, from, parameter_count) ==
    LET data == stuff(Slice(buffer, from, from + parameter_count))
    IN  IF from + Len(data) > Len(buffer)
            THEN [ok |-> FALSE, buffer |-> buffer, stuffed_body_len |-> 0]
            ELSE [ok |-> TRUE,
                  buffer |-> [i \in 1..Len(buffer) |->
                                 IF i > from /\ i <= from + Len(data)
                                     THEN data[i - from] ELSE buffer[i]],
                  stuffed_body_len |-> Len(data)]

\* buffer[at..at + len(bytes)] = bytes
put(buffer, at, bytes) ==
    [i \in 1..Len(buffer) |->
        IF i > at /\ i <= at + Len(bytes) THEN bytes[i - at] ELSE buffer[i]]

Encoded(kind, buffer, message) == [kind |-> kind, write_buffer |-> buffer, message |-> message]

\* Mutant: the length field counts the stuffed body alone.
length_field_of_body(stuffed_body_len) == stuffed_body_len % 65536

\* Line 124: stuffed_body_len as u16 + 3
length_field(stuffed_body_len) == (stuffed_body_len % 65536) + 3

\* Mutant: the checksum bytes that do not fit are left out.
write_checksum_that_fits(buffer, checksum_index, checksum) ==
    [ok |-> TRUE,
     buffer |-> put(buffer, checksum_index,
                    SubSeq(write_u16_le(checksum), 1, Min(2, Len(buffer) - checksum_index))),
     end |-> Min(checksum_index + 2, Len(buffer))]

\* Line 129: write_u16_le(&mut buffer[checksum_index..], checksum) panics on a
\* slice shorter than two bytes.
write_checksum(buffer, checksum_index, checksum) ==
    IF checksum_index + 2 > Len(buffer)
        THEN [ok |-> FALSE, buffer |-> buffer, end |-> checksum_index]
        ELSE [ok |-> TRUE, buffer |-> put(buffer, checksum_index, write_u16_le(checksum)),
              end |-> checksum_index + 2]

\* Lines 106-132: the frame is built in the write buffer.
encode(buffer, id, instruction, params) ==
    LET parameter_count == Len(params)
    IN  IF Len(buffer) < HEADER_SIZE + parameter_count + 2
            THEN Encoded("Panic", buffer, <<>>)
        ELSE LET filled == put(buffer, 4, <<id, 0, 0, instruction>> \o params)
                 stuffed == stuff_inplace(filled, HEADER_SIZE, parameter_count)
             IN  IF ~stuffed.ok
                     \* the unwrap of line 122
                     THEN Encoded("Panic", filled, <<>>)
                 ELSE LET stuffed_body_len == stuffed.stuffed_body_len
                          sized == put(stuffed.buffer, 5,
                                       write_u16_le(length_field(stuffed_body_len)))
                          checksum_index == HEADER_SIZE + stuffed_body_len
                          checksum == calculate_checksum(0, Slice(sized, 0, checksum_index))
                          whole == write_checksum(sized, checksum_index, checksum)
                      IN  IF ~whole.ok
                              THEN Encoded("Panic", sized, <<>>)
                              ELSE Encoded("ready", whole.buffer,
                                           Slice(whole.buffer, 0, whole.end))

\* ----------------------------------------------------------------- actions
Bus == BusOf(read_buffer, read_len)

\* Mutant: the old data stays.
invalidate_nothing(bus) == bus

\* Line 104: the old data in the read buffer is thrown away.
invalidate(bus) == BusOf(bus.read_buffer, 0)

\* write_instruction up to the write_all of line 134, called directly (kind
\* "write") or as the first step of transfer_single (kind "transfer").
Begin(kind, id, params) ==
    LET e == encode(write_buffer, id, PING, params)
    IN  /\ pc = "idle"
        /\ calls < MaxCalls
        /\ read_len' = invalidate(Bus).read_len
        /\ read_buffer' = invalidate(Bus).read_buffer
        /\ mark' = delivered
        /\ thrown' = read_len
        /\ kept' = 0
        /\ write_buffer' = e.write_buffer
        /\ IF e.kind = "Panic"
               THEN /\ pc' = "panicked"
                    /\ result' = Ended("WritePanic", kind)
                    /\ op' = NoOp
               ELSE /\ pc' = "sending"
                    /\ result' = Ended("pending", kind)
                    /\ op' = [kind |-> kind, packet_id |-> id, message |-> e.message]
        /\ calls' = calls + 1
        /\ rel' = NoRelease
        /\ UNCHANGED <<now, deadline, response, scen, delivered, sent, live>>

WriteInstruction == \E id \in PacketIds, params \in scen.writes : Begin("write", id, params)

TransferSingle == \E id \in PacketIds, params \in scen.writes : Begin("transfer", id, params)

\* stream.write_all succeeds; transfer_single goes on to read_status_response.
WriteAllOk ==
    /\ pc = "sending"
    /\ sent' = op.message
    /\ IF op.kind = "transfer"
           THEN /\ pc' = "reading"
                /\ now' = 0
                /\ deadline' = ReadTimeout
                /\ UNCHANGED <<result, op>>
           ELSE /\ pc' = "idle"
                /\ result' = Ended("Written", op.kind)
                /\ op' = NoOp
                /\ UNCHANGED <<now, deadline>>
    /\ UNCHANGED <<read_buffer, read_len, write_buffer, response, kept, thrown, scen, delivered,
                   calls, mark, live, rel>>

\* stream.write_all fails: the error is returned.
WriteAllFail ==
    /\ pc = "sending"
    /\ pc' = "idle"
    /\ result' = Ended("WriteIo", op.kind)
    /\ op' = NoOp
    /\ UNCHANGED <<read_buffer, read_len, write_buffer, now, deadline, response,
                   kept, thrown, scen, delivered, sent, calls, mark, live, rel>>

\* read_status_response is called: the deadline is computed.
ReadStatusResponse ==
    /\ pc = "idle"
    /\ calls < MaxCalls
    /\ pc' = "reading"
    /\ now' = 0
    /\ deadline' = ReadTimeout
    /\ op' = [kind |-> "read", packet_id |-> 0, message |-> <<>>]
    /\ result' = Ended("pending", "read")
    /\ calls' = calls + 1
    /\ rel' = NoRelease
    /\ UNCHANGED <<read_buffer, read_len, write_buffer, response, kept, thrown, scen,
                   delivered, sent, mark, live>>

\* The clock advances while the caller is blocked in the loop.
Tick ==
    /\ pc = "reading"
    /\ now <= deadline
    /\ now' = now + 1
    /\ UNCHANGED <<read_buffer, read_len, write_buffer, pc, op, deadline, response,
                   result, kept, thrown, scen, delivered, sent, calls, mark, live, rel>>

\* The call of read_status_response, or of transfer_single, returns.
Return(kind) ==
    /\ pc' = "idle"
    /\ result' = Ended(kind, op.kind)
    /\ op' = NoOp
    /\ now' = 0
    /\ deadline' = 0

\* Mutant: the deadline is looked at only when the transport has data.
ReadTimedOut_with_data ==
    /\ pc = "reading"
    /\ now > deadline
    /\ Burst > 0 /\ read_len < ReadCap
    /\ Return("TimedOut")
    /\ kept' = read_len
    /\ UNCHANGED <<read_buffer, read_len, write_buffer, response, thrown, scen, delivered,
                   sent, calls, mark, live, rel>>

\* Mutant: a timeout throws the buffered bytes away.
ReadTimedOut_discards ==
    /\ pc = "reading"
    /\ now > deadline
    /\ Return("TimedOut")
    /\ kept' = read_len
    /\ read_len' = 0
    /\ UNCHANGED <<read_buffer, write_buffer, response, thrown, scen, delivered,
                   sent, calls, mark, live, rel>>

\* Lines 142-144.
ReadTimedOut ==
    /\ pc = "reading"
    /\ now > deadline
    /\ Return("TimedOut")
    /\ kept' = read_len
    /\ UNCHANGED <<read_buffer, read_len, write_buffer, response, thrown, scen, delivered,
                   sent, calls, mark, live, rel>>

\* Mutant: a failed read empties the read buffer.
ReadIoError_discards ==
    /\ pc = "reading"
    /\ now <= deadline
    /\ Return("ReadIo")
    /\ read_len' = 0
    /\ UNCHANGED <<read_buffer, write_buffer, response, kept, thrown, scen, delivered,
                   sent, calls, mark, live, rel>>

\* Line 146: stream.read fails.
ReadIoError ==
    /\ pc = "reading"
    /\ now <= deadline
    /\ Return("ReadIo")
    /\ UNCHANGED <<read_buffer, read_len, write_buffer, response, kept, thrown, scen, delivered,
                   sent, calls, mark, live, rel>>

Released(before, resp) ==
    [read_len |-> before.read_len,
     stuffed_message_len |-> resp.stuffed_message_len,
     tail |-> Slice(before.read_buffer, resp.stuffed_message_len, before.read_len)]

\* Mutant: the packet ID is not checked.
check_packet_id_skipped(out) == out

\* Line 85 of transfer_single: the Response of a read that succeeded is checked
\* against the packet ID that was sent, and dropped when they differ.
check_packet_id(out) ==
    IF /\ out.kind = "Ok"
       /\ op.kind = "transfer"
       /\ ~InvalidPacketId_check(packet_id(out.bus, out.response), op.packet_id)
        THEN Outcome("InvalidPacketId", drop(out.bus, out.response), out.response,
                     TRUE, TRUE, out.bus)
        ELSE out

\* The end of one pass of the loop.
Finish(out) ==
    /\ read_buffer' = out.bus.read_buffer
    /\ read_len' = out.bus.read_len
    /\ live' = live + (IF out.created THEN 1 ELSE 0) - (IF out.released THEN 1 ELSE 0)
    /\ rel' = IF out.released THEN Released(out.before, out.response) ELSE rel
    /\ kept' = IF out.kind \in {"continue", "Ok"} THEN kept ELSE 0
    /\ CASE out.kind = "continue" ->
              UNCHANGED <<pc, result, op, now, deadline, response>>
         [] out.kind = "Panic" ->
              /\ pc' = "panicked"
              /\ result' = Ended("Panic", op.kind)
              /\ UNCHANGED <<op, now, deadline, response>>
         [] out.kind = "Ok" ->
              /\ pc' = "response"
              /\ result' = Ended("Ok", op.kind)
              /\ response' = out.response
              /\ op' = NoOp
              /\ now' = 0
              /\ deadline' = 0
         [] OTHER ->
              /\ Return(out.kind)
              /\ response' = response

\* Lines 146-199: stream.read returns new_data bytes, none when the buffer is full
\* or the transport has nothing.
ReadData ==
    /\ pc = "reading"
    /\ now <= deadline
    /\ \E new_data \in {0, Min(ReadCap - read_len, Burst)} :
          /\ delivered' = delivered + new_data
          /\ IF new_data = 0
                 THEN UNCHANGED <<read_buffer, read_len, pc, result, op, now, deadline,
                                  response, live, rel, kept>>
                 ELSE \E out \in poll(Bus, SubSeq(Wire, 1, new_data)) :
                          Finish(check_packet_id(out))
    /\ UNCHANGED <<write_buffer, thrown, scen, sent, calls, mark>>

\* The caller lets go of the Response.
DropResponse ==
    /\ pc = "response"
    /\ LET after == drop(Bus, response)
       IN  /\ read_buffer' = after.read_buffer
           /\ read_len' = after.read_len
    /\ rel' = Released(Bus, response)
    /\ live' = live - 1
    /\ kept' = 0
    /\ response' = NoResponse
    /\ pc' = "idle"
    /\ UNCHANGED <<write_buffer, op, now, deadline, result, thrown, scen, delivered, sent,
                   calls, mark>>

Next ==
    \/ WriteInstruction
    \/ TransferSingle
    \/ WriteAllOk
    \/ WriteAllFail
    \/ ReadStatusResponse
    \/ Tick
    \/ ReadTimedOut
    \/ ReadIoError
    \/ ReadData
    \/ DropResponse

Spec == Init /\ [][Next]_vars

\* The loop of read_status_response goes round while stream.read returns, and
\* the clock goes on.
LiveSpec == Init /\ [][Next]_vars /\ WF_vars(Tick) /\ WF_vars(ReadTimedOut)

\* ------------------------------------------------------------------ claims
ValidBytes == Slice(read_buffer, 0, read_len)
\* The offset in the stream of the byte at the head of the read buffer.
Base == delivered - read_len
\* The offset in the stream of the end of the first frame.
Total1 == Len(scen.G) + Len(scen.F1.bytes)
HasHeader(G) == \E i \in 1..(Len(G) - 3) : SubSeq(G, i, i + 3) = HEADER_PREFIX
FirstRead == calls = 1 /\ result.call = "read"
\* A Response is held and it is the frame F.
ResponseIs(F) ==
    /\ pc = "response"
    /\ response.stuffed_message_len = Len(F.bytes)
    /\ packet_id(Bus, response) = F.packet_id
    /\ error(Bus, response) = F.error
    /\ parameters(Bus, response) = F.parameters
\* stream.read can only return 0.
NoData == Wire = <<>> \/ read_len = ReadCap

\* C1 as stated: for every garbage G in front of a valid frame F, the first read
\* discards exactly len(G) bytes and returns F's packet ID, error and parameters.
C1_AnyGarbage ==
    (FirstRead /\ scen.F1.kind = "valid" /\ delivered >= Total1) =>
        /\ result.kind = "Ok"
        /\ IF pc = "response"
               THEN ResponseIs(scen.F1) /\ Base = Len(scen.G)
               ELSE pc = "idle" /\ Base = Total1

\* C1 amended: the same for every garbage G that does not hold the header prefix
\* FF FF FD 00.
C1_Resync ==
    (FirstRead /\ scen.F1.kind = "valid" /\ ~HasHeader(scen.G) /\ delivered >= Total1) =>
        /\ result.kind = "Ok"
        /\ IF pc = "response"
               THEN ResponseIs(scen.F1) /\ Base = Len(scen.G)
               ELSE pc = "idle" /\ Base = Total1

C1_Witness ==
    /\ FirstRead
    /\ scen.G = <<255, 255, 253>>
    /\ ResponseIs(scen.F1)
    /\ Base = 3

\* C2: two valid frames in one transport read: the first read returns a Response
\* that shows F1 alone, and after its release the buffer holds exactly F2 at
\* offset 0 with read_len = len(F2).
C2_BackToBack ==
    (/\ FirstRead
     /\ scen.G = <<>> /\ scen.F1.kind = "valid" /\ scen.F2.kind = "valid"
     /\ scen.cuts = {Len(Stream)}
     /\ delivered = Len(Stream)) =>
        /\ result.kind = "Ok"
        /\ IF pc = "response"
               THEN /\ ResponseIs(scen.F1)
                    /\ as_bytes(Bus, response)
                         = SubSeq(scen.F1.bytes, 1, STATUS_HEADER_SIZE) \o scen.F1.parameters
               ELSE /\ pc = "idle"
                    /\ read_len = Len(scen.F2.bytes)
                    /\ ValidBytes = scen.F2.bytes

C2_Witness ==
    /\ FirstRead
    /\ scen.F1.kind = "valid" /\ scen.F2.kind = "valid"
    /\ scen.cuts = {Len(Stream)}
    /\ pc = "idle"
    /\ rel.stuffed_message_len = Len(scen.F1.bytes)
    /\ ValidBytes = scen.F2.bytes

\* C3: every Response is released exactly once, whichever way the call ends:
\* one is live exactly while the caller holds it, a call that failed after the
\* Response was made has released it, and a release lowers read_len by the
\* frame's stuffed length and leaves the bytes that followed it at offset 0.
C3_ReleasedOnce ==
    /\ live = (IF pc = "response" THEN 1 ELSE 0)
    /\ result.kind \in {"InvalidInstruction", "MotorError", "InvalidPacketId"} =>
           rel.stuffed_message_len > 0
    /\ (result.kind = "Ok" /\ pc = "idle") => rel.stuffed_message_len > 0
    /\ rel.stuffed_message_len > 0 =>
           /\ pc = "idle"
           /\ read_len = rel.read_len - rel.stuffed_message_len
           /\ ValidBytes = rel.tail

C3_Witness ==
    /\ result.kind = "InvalidPacketId"
    /\ rel.stuffed_message_len > 0
    /\ Len(rel.tail) > 0
    /\ ValidBytes = rel.tail

\* C4: a complete frame with a wrong checksum ends the call at once with a
\* checksum error, and exactly that frame's bytes leave the buffer: what
\* followed it is at offset 0.
C4_ChecksumRejected ==
    /\ (calls = 1 /\ scen.F1.kind = "badcrc" /\ delivered >= Total1) =>
           /\ result.kind = "InvalidChecksum"
           /\ pc = "idle"
           /\ Base = Total1
           /\ ValidBytes = SubSeq(Stream, Total1 + 1, delivered)
    /\ result.kind = "InvalidChecksum" => (pc = "idle" /\ live = 0)

C4_Witness ==
    /\ result.kind = "InvalidChecksum"
    /\ read_len > 0
    /\ ValidBytes = scen.F2.bytes

\* A header is buffered whose length field asks for more than the read buffer holds.
Oversized ==
    /\ read_len >= STATUS_HEADER_SIZE
    /\ starts_with(ValidBytes, HEADER_PREFIX)
    /\ 7 + read_buffer[5 + 1] + 256 * read_buffer[6 + 1] > ReadCap

\* C5: a header that declares more bytes than the read buffer can hold ends the
\* call with a framing fault: the call neither goes on polling nor times out.
C5_BufferTooSmall ==
    (calls = 1 /\ Oversized) => (pc # "reading" /\ result.kind # "TimedOut")

\* C6: a read that times out leaves the bytes of the frame it has received in the
\* buffer, and a later read, with no write in between, during which the rest
\* arrives returns the frame.
C6_TimeoutKeepsBytes ==
    /\ (/\ result.kind = "TimedOut" /\ pc = "idle" /\ mark = 0
        /\ scen.F1.kind = "valid" /\ ~HasHeader(scen.G) /\ delivered < Total1) =>
           /\ read_len = kept
           /\ read_len >= delivered - Len(scen.G)
           /\ ValidBytes = SubSeq(Stream, Base + 1, delivered)
    /\ (/\ kept > 0 /\ mark = 0
        /\ scen.F1.kind = "valid" /\ scen.F2.kind = "none" /\ ~HasHeader(scen.G)
        /\ delivered >= Total1) =>
           (ResponseIs(scen.F1) /\ result.call = "read")

C6_Witness ==
    /\ kept > 0 /\ kept < Len(scen.F1.bytes)
    /\ mark = 0
    /\ calls = 2
    /\ ResponseIs(scen.F1)

\* C7: while the transport has nothing to give, read_status_response comes to an
\* end, and it ends with a timeout after the deadline (or with the transport's
\* error), never with a Response.
C7_TimesOut ==
    /\ []((pc = "reading" /\ NoData) => <>(pc # "reading"))
    /\ [][(pc = "reading" /\ NoData /\ pc' # "reading") =>
              /\ pc' = "idle"
              /\ result'.kind \in {"TimedOut", "ReadIo"}
              /\ result'.kind = "TimedOut" => now > deadline]_vars

C7_Witness ==
    /\ result.kind = "TimedOut"
    /\ result.call = "read"
    /\ delivered = 0

\* What read_status_response comes to when the frame F arrives in one transport
\* read into an empty buffer.
WholeRead(F) == CHOOSE out \in poll(BusOf([i \in 1..ReadCap |-> 0], 0), F.bytes) : TRUE

\* C8: a valid frame that arrives in two transport reads gives the same packet
\* ID, error and parameters, and the same buffer after the release, as the frame
\* arriving in one.
C8_SplitAsWhole ==
    (/\ FirstRead
     /\ scen.G = <<>> /\ scen.F1.kind = "valid" /\ scen.F2.kind = "none"
     /\ delivered = Total1) =>
        LET one == WholeRead(scen.F1)
        IN  /\ one.kind = "Ok"
            /\ result.kind = "Ok"
            /\ IF pc = "response"
                   THEN /\ response = one.response
                        /\ packet_id(Bus, response) = packet_id(one.bus, one.response)
                        /\ error(Bus, response) = error(one.bus, one.response)
                        /\ parameters(Bus, response) = parameters(one.bus, one.response)
                   ELSE /\ pc = "idle"
                        /\ Bus = drop(one.bus, one.response)

C8_Witness ==
    /\ FirstRead
    /\ scen.G = <<>> /\ scen.F1.parameters = <<255, 255, 253>>
    /\ 10 \in scen.cuts
    /\ pc = "idle"
    /\ result.kind = "Ok"
    /\ Bus = drop(WholeRead(scen.F1).bus, WholeRead(scen.F1).response)

\* C9: write_instruction empties the read buffer before it hands anything to the
\* transport, and it stays empty however the write ends; the bytes of a
\* Response were all delivered after the last write_instruction.
C9_WriteDiscardsFirst ==
    /\ pc = "sending" => read_len = 0
    /\ result.kind \in {"Written", "WriteIo", "WritePanic"} => read_len = 0
    /\ Base >= mark
    /\ pc = "response" =>
           Slice(read_buffer, 0, STATUS_HEADER_SIZE)
               = SubSeq(Stream, Base + 1, Base + STATUS_HEADER_SIZE)

C9_Witness ==
    /\ pc = "response"
    /\ thrown > 0
    /\ mark > 0

\* C10: transfer_single returns a Response only for the packet ID it sent; a
\* good frame with another packet ID ends it with a packet ID error and leaves
\* the buffer; read_status_response never ends with that error.
C10_PacketIdChecked ==
    /\ (pc = "response" /\ result.call = "transfer") =>
           packet_id(Bus, response) = sent[4 + 1]
    /\ result.kind = "InvalidPacketId" =>
           /\ result.call = "transfer"
           /\ pc = "idle"
           /\ live = 0
           /\ rel.stuffed_message_len > 0
           /\ read_len = rel.read_len - rel.stuffed_message_len
    /\ (/\ calls = 1 /\ result.call = "transfer" /\ sent # <<>>
        /\ scen.G = <<>> /\ scen.F1.kind = "valid"
        /\ sent[4 + 1] # scen.F1.packet_id
        /\ delivered >= Total1) =>
           /\ result.kind = "InvalidPacketId"
           /\ Base = Total1
    /\ result.call = "read" => result.kind # "InvalidPacketId"

C10_Witness ==
    /\ result.kind = "InvalidPacketId"
    /\ scen.F1.kind = "valid"
    /\ sent[4 + 1] # scen.F1.packet_id
    /\ Base = Total1

\* C11: a buffered frame with a good checksum is checked marker first, error
\* field second: a marker other than the status marker ends the call with an
\* instruction fault whatever the error field holds, a status marker with an
\* error code ends it with a device fault, anything else is returned; and in both
\* fault cases exactly the frame has left the buffer when the call ends.
C11_MarkerThenError ==
    /\ (calls = 1 /\ scen.F1.kind = "marker" /\ delivered >= Total1) =>
           /\ result.kind = "InvalidInstruction"
           /\ Base = Total1
           /\ ValidBytes = SubSeq(Stream, Total1 + 1, delivered)
    /\ (calls = 1 /\ scen.F1.kind = "motor" /\ delivered >= Total1) =>
           /\ result.kind = "MotorError"
           /\ Base = Total1
           /\ ValidBytes = SubSeq(Stream, Total1 + 1, delivered)
    /\ (calls = 1 /\ scen.F1.kind = "valid" /\ scen.G = <<>> /\ delivered >= Total1) =>
           result.kind \in {"Ok", "InvalidPacketId"}
    /\ result.kind \in {"InvalidInstruction", "MotorError"} =>
           /\ pc = "idle"
           /\ live = 0
           /\ rel.stuffed_message_len > 0
           /\ read_len = rel.read_len - rel.stuffed_message_len
           /\ ValidBytes = rel.tail

C11_Witness ==
    /\ result.kind = "InvalidInstruction"
    /\ scen.F1.kind = "marker" /\ scen.F1.error = 2
    /\ read_len = Len(scen.F2.bytes) /\ read_len > 0

\* The instruction IDs a caller passes: ping and write.
InstructionIds == {PING, 3}
\* The caller can call write_instruction, and the write buffer is as
\* Bus::with_buffers or a first write_instruction left it.
CanWrite == pc = "idle" /\ calls <= 1 /\ result.kind \in {"none", "Written", "WriteIo"}

\* The frame m has the layout of an instruction frame for id, instruction, params.
Layout(m, id, instruction, params) ==
    LET n == Len(m)
        body == stuff(params)
    IN  /\ n = HEADER_SIZE + Len(body) + 2
        /\ SubSeq(m, 1, 4) = HEADER_PREFIX
        /\ m[4 + 1] = id
        /\ read_u16_le(SubSeq(m, 6, 7)) = Len(body) + 3
        /\ m[7 + 1] = instruction
        /\ SubSeq(m, 9, n - 2) = body
        /\ read_u16_le(SubSeq(m, n - 1, n)) = calculate_checksum(0, SubSeq(m, 1, n - 2))

\* C12: every frame write_instruction hands to the transport is the header
\* prefix, the packet ID, the length stuffed_body_len + 3 little endian, the
\* instruction ID, the stuffed parameters and the checksum, seed 0, of all bytes
\* before it, little endian; for packet ID 1, instruction 3 and no parameters it
\* is FF FF FD 00 01 03 00 03 and two checksum bytes.
C12_FrameLayout ==
    /\ pc = "sending" =>
           \E params \in scen.writes : Layout(op.message, op.packet_id, PING, params)
    /\ result.kind = "Written" =>
           \E id \in PacketIds, params \in scen.writes : Layout(sent, id, PING, params)
    /\ CanWrite =>
           \A id \in PacketIds, instruction \in InstructionIds, params \in scen.writes :
               LET e == encode(write_buffer, id, instruction, params)
               IN  e.kind = "ready" => Layout(e.message, id, instruction, params)
    /\ CanWrite =>
       LET e == encode(write_buffer, 1, 3, <<>>)
       IN  /\ e.kind = "ready"
           /\ Len(e.message) = 10
           /\ SubSeq(e.message, 1, 8) = <<255, 255, 253, 0, 1, 3, 0, 3>>
           /\ SubSeq(e.message, 9, 10)
                  = write_u16_le(calculate_checksum(0, <<255, 255, 253, 0, 1, 3, 0, 3>>))

C12_Witness ==
    /\ sent # <<>>
    /\ Layout(sent, 2, PING, <<255, 255, 253, 253>>)
    /\ Len(sent) = WriteCap

\* What a receiver reads out of the frame m: the fields, and the body unstuffed.
Received(m) ==
    LET n == Len(m)
        length == read_u16_le(SubSeq(m, 6, 7))
    IN  [ok |-> /\ n = 7 + length
                /\ starts_with(m, HEADER_PREFIX)
                /\ read_u16_le(SubSeq(m, n - 1, n)) = calculate_checksum(0, SubSeq(m, 1, n - 2)),
         packet_id |-> m[4 + 1],
         instruction_id |-> m[7 + 1],
         parameters |-> unstuff(SubSeq(m, 9, 8 + (length - 3)))]

\* C13: the frame write_instruction builds for a packet ID, an instruction ID
\* and parameters that fit the write buffer reads back, after the checksum is
\* verified and the body of the length the length field gives is unstuffed, as
\* the same packet ID, instruction ID and parameters.
C13_RoundTrip ==
    /\ CanWrite =>
           \A id \in PacketIds, instruction \in InstructionIds, params \in scen.writes :
               LET e == encode(write_buffer, id, instruction, params)
               IN  e.kind = "ready" =>
                       Received(e.message) =
                           [ok |-> TRUE, packet_id |-> id, instruction_id |-> instruction,
                            parameters |-> params]
    /\ pc = "sending" =>
           /\ Received(op.message).ok
           /\ Received(op.message).packet_id = op.packet_id
           /\ Received(op.message).instruction_id = PING
           /\ Received(op.message).parameters \in scen.writes
    /\ result.kind = "Written" =>
           /\ Received(sent).ok
           /\ Received(sent).parameters \in scen.writes

C13_Witness ==
    /\ pc = "sending"
    /\ Len(op.message) = WriteCap
    /\ Received(op.message).ok
    /\ Received(op.message).parameters = <<255, 255, 253, 253>>

\* The write buffer is too small for the frame of these parameters: for the
\* body as the caller wrote it, or for the stuffed body and the checksum.
TooSmall(params) ==
    \/ WriteCap < HEADER_SIZE + Len(params) + 2
    \/ WriteCap < HEADER_SIZE + Len(stuff(params)) + 2

\* C14: a frame the write buffer cannot hold is refused before the transport is
\* given anything: the call ends in the panic, what the transport has taken is
\* nothing or the whole frame of an earlier call, a frame about to be sent is
\* whole and no longer than the write buffer, and the write buffer keeps its
\* size.
C14_RefusedBeforeSend ==
    /\ Len(write_buffer) = WriteCap
    /\ CanWrite =>
           \A id \in PacketIds, params \in scen.writes :
               LET e == encode(write_buffer, id, PING, params)
               IN  /\ Len(e.write_buffer) = WriteCap
                   /\ TooSmall(params) <=> e.kind = "Panic"
                   /\ e.kind = "Panic" => e.message = <<>>
    /\ pc = "sending" =>
           /\ Len(op.message) <= WriteCap
           /\ Received(op.message).ok
           /\ ~TooSmall(Received(op.message).parameters)
    /\ result.kind = "WritePanic" =>
           /\ pc = "panicked"
           /\ calls = 1 => sent = <<>>
           /\ sent # <<>> => Received(sent).ok

C14_Witness ==
    /\ result.kind = "WritePanic"
    /\ sent = <<>>
    /\ write_buffer[WriteCap - 1] = 253 /\ write_buffer[WriteCap - 2] = 253

\* C15: in every reachable state read_len is at most the capacity of the read
\* buffer, and the valid bytes are offsets [0, read_len) without a gap: they are
\* the last read_len bytes the transport delivered, in order, but for the
\* parameters of a live Response, which are unstuffed in place.
C15_LeftAligned ==
    /\ Len(read_buffer) = ReadCap
    /\ read_len \in 0..ReadCap
    /\ Base >= 0
    /\ pc # "response" => ValidBytes = SubSeq(Stream, Base + 1, delivered)
    /\ pc = "response" =>
           /\ response.stuffed_message_len <= read_len
           /\ STATUS_HEADER_SIZE + response.parameter_count + 2 <= response.stuffed_message_len
           /\ Slice(read_buffer, 0, STATUS_HEADER_SIZE)
                  = SubSeq(Stream, Base + 1, Base + STATUS_HEADER_SIZE)
           /\ Slice(read_buffer, response.stuffed_message_len, read_len)
                  = SubSeq(Stream, Base + response.stuffed_message_len + 1, delivered)

C15_Witness ==
    /\ calls = 2
    /\ pc = "idle"
    /\ rel.stuffed_message_len > 0
    /\ read_len > 0
    /\ ValidBytes = SubSeq(Stream, Base + 1, delivered)

\* C16: a failure of the transport ends the call in the step it happens in, with
\* that failure: after a failed write nothing was sent and transfer_single has
\* read nothing from the transport, and a failed read leaves read_len, the
\* buffered bytes and what the transport holds as they were.
C16_IoErrorReturned ==
    /\ [](result.kind \in {"ReadIo", "WriteIo"} => (pc = "idle" /\ live = 0))
    /\ [](result.kind = "WriteIo" => (delivered = mark /\ read_len = 0))
    /\ []((result.kind = "WriteIo" /\ calls = 1) => (sent = <<>> /\ delivered = 0))
    /\ [][(pc = "sending" /\ result'.kind = "WriteIo") =>
              (pc' = "idle" /\ sent' = sent /\ delivered' = delivered
                  /\ result'.call = op.kind)]_vars
    /\ [][(pc = "reading" /\ result'.kind = "ReadIo") =>
              (pc' = "idle" /\ read_len' = read_len /\ read_buffer' = read_buffer
                  /\ delivered' = delivered /\ result'.call = op.kind)]_vars

C16_Witness ==
    /\ result.kind = "ReadIo"
    /\ result.call = "transfer"
    /\ read_len > 0
    /\ ValidBytes = SubSeq(Stream, Base + 1, delivered)

\* The bytes of b from offset j on begin with the first min(4, len - j) bytes of
\* the header prefix.
PrefixAt(b, j) ==
    LET k == Min(Len(HEADER_PREFIX), Len(b) - j)
    IN  SubSeq(b, j + 1, j + k) = SubSeq(HEADER_PREFIX, 1, k)

\* i is the smallest such offset of b, or the length of b when there is none.
FirstHeaderAt(b, i) ==
    /\ i \in 0..Len(b)
    /\ i < Len(b) => PrefixAt(b, i)
    /\ \A j \in 0..(i - 1) : ~PrefixAt(b, j)

\* The assertions of test_find_garbage_end.
TestFindGarbageEnd ==
    /\ find_header(<<255>>) = 0
    /\ find_header(<<255, 255>>) = 0
    /\ find_header(<<255, 255, 253>>) = 0
    /\ find_header(<<255, 255, 253, 0>>) = 0
    /\ find_header(<<255, 255, 253, 0, 9>>) = 0
    /\ find_header(<<0, 1, 2, 3, 4, 255>>) = 5
    /\ find_header(<<0, 1, 2, 3, 4, 255, 255>>) = 5
    /\ find_header(<<0, 1, 2, 3, 4, 255, 255, 253>>) = 5
    /\ find_header(<<0, 1, 2, 3, 4, 255, 255, 253, 0>>) = 5
    /\ find_header(<<0, 1, 2, 3, 4, 255, 255, 253, 0, 9>>) = 5
    /\ find_header(<<255, 1>>) = 2
    /\ find_header(<<0, 1, 2, 3, 4, 255, 6>>) = 7

\* The bytes the next stream.read puts behind the valid ones.
NextChunk == SubSeq(Wire, 1, Min(ReadCap - read_len, Burst))

\* C17: find_header gives the smallest offset at which the buffer goes on with
\* the first min(4, len - i) bytes of the header prefix, the length when there
\* is none; so what remove_garbage leaves is empty or begins with a whole
\* header prefix or with the part of one the buffer ends in, and all of the
\* buffer from that offset on is kept.
C17_FindHeader ==
    /\ TestFindGarbageEnd
    /\ pc = "reading" =>
           LET b == ValidBytes \o NextChunk
               i == find_header(b)
               got == remove_garbage(receive(Bus, NextChunk))
               left == Slice(got.read_buffer, 0, got.read_len)
           IN  /\ FirstHeaderAt(b, i)
               /\ left = SubSeq(b, i + 1, Len(b))
               /\ left = <<>> \/ PrefixAt(left, 0)
               /\ \A k \in 1..Min(3, Len(b)) :
                      SubSeq(b, Len(b) - k + 1, Len(b)) = SubSeq(HEADER_PREFIX, 1, k)
                          => got.read_len >= k
    /\ (pc = "reading" /\ delivered > mark /\ kept = 0 /\ calls = 1) =>
           (read_len = 0 \/ PrefixAt(ValidBytes, 0))

C17_Witness ==
    /\ pc = "reading"
    /\ Base = 2
    /\ ValidBytes = <<255, 255>>
    /\ find_header(SubSeq(Stream, 1, delivered)) = 2

\* C18: a second read_status_response, entered with the whole valid frame F2 in
\* the read buffer after the Response for F1 of the same transport read was
\* released, does not time out: it returns F2 though the transport has nothing
\* more to give.
C18_BufferedFrameReturned ==
    (/\ calls = 2 /\ result.call = "read"
     /\ scen.F1.kind = "valid" /\ scen.F2.kind = "valid"
     /\ scen.cuts = {Len(Stream)}
     /\ delivered = Len(Stream)
     /\ sent = <<>>
     /\ pc = "idle"
     /\ rel = NoRelease
     /\ ValidBytes = scen.F2.bytes) =>
        result.kind # "TimedOut"

\* C19: whatever the transport delivers, a header with a length field of 0, 1,
\* 2 or 3 included, read_status_response returns a Response or an error: it
\* does not end in a panic, neither of the subtraction of line 164 nor of the
\* slice of line 187.
C19_NoPanic ==
    result.kind # "Panic"

\* The call of consume_read_bytes that took `before` to `after` passed its
\* assertion.
Asserted(before, after) == consume_assert(before, before.read_len - after.read_len)

\* C20: len <= read_len holds at every call of consume_read_bytes: in the
\* remove_garbage of the next pass of the loop, after a checksum mismatch (the
\* length that is left is not below 0), in the last release, inside the call or
\* by the caller, and in the release of the Response the caller holds.
C20_ConsumeAssert ==
    /\ pc = "reading" =>
           LET got == receive(Bus, NextChunk)
           IN  Asserted(got, remove_garbage(got))
    /\ result.kind = "InvalidChecksum" => read_len >= 0
    /\ rel.stuffed_message_len <= rel.read_len
    /\ pc = "response" => Asserted(Bus, drop(Bus, response))
    /\ read_len >= 0

C20_Witness ==
    /\ pc = "idle"
    /\ calls = 1
    /\ rel.stuffed_message_len = rel.read_len
    /\ rel.read_len > 0
    /\ read_len = 0

====
